---- MODULE Spec2Model ----
(***************************************************************************)
(* A model of rwg: the marshaling layer between the safe Device / Peer /   *)
(* AllowedIp / Key values and the foreign records of the embeddable        *)
(* WireGuard library.                                                       *)
(*                                                                         *)
(* Memory is modelled at the level the code touches it: byte sequences for *)
(* addresses and keys, integer fields for the u16 / u8 members, and        *)
(* pointers into a sibling buffer as 1-based slot numbers (NULL is 0).     *)
(* The target is little-endian (a native load of bytes b1 b2 is            *)
(* b1 + 256 * b2).                                                         *)
(***************************************************************************)
EXTENDS Integers, Sequences, FiniteSets

VARIABLES
    \* the address-family codec (net.rs) and AllowedIp marshaling (peer.rs)
    endpoint,       \* the Endpoint last encoded, as an Option
    saddr,          \* the socket-address buffer (the 28-byte endpoint union)
    ep_out,         \* outcome of sockaddr_to_endpoint on saddr
    allowed_ip,     \* the AllowedIp last encoded, as an Option
    allowedip_h,    \* the foreign wg_allowedip record
    allowedip_out,  \* outcome of AllowedIp::from_handle on allowedip_h
    \* the Key text codec (key.rs)
    key,            \* the Key whose to_base64 produced b64, as an Option
    b64,            \* the Base64 text, a sequence of character codes
    key_out,        \* outcome of Key::from_base64 on b64
    \* one Peer and its marshaling (peer.rs)
    peer,           \* the Peer being built, as an Option
    peer_h,         \* its peer::Handle, or a foreign peer record, as an Option
    peer_out,       \* outcome of Peer::from_handle on peer_h
    \* devices (device.rs) and the system they configure
    sys,            \* the system's interfaces: name -> configuration, or absent
    dev,            \* the Device each caller holds, as an Option
    via,            \* how each caller got its Device: "create", "open", "none"
    last_save,      \* the last successful save, as an Option: its caller, its via,
                    \* and the other callers that then held an opened Device
    tree,           \* the device Handle that Device::handle built, as an Option
    out,            \* the result of this step's open, save or all
    \* the heap of a process and the saves in progress in it (device.rs)
    heap,           \* address -> the buffer allocated there, if any
    held,           \* the device Handle each save in progress holds, as an Option
    pc              \* the position of each caller inside Device::save

codecVars == <<endpoint, saddr, ep_out, allowed_ip, allowedip_h, allowedip_out>>

keyVars == <<key, b64, key_out>>

peerVars == <<peer, peer_h, peer_out>>

sysVars == <<sys, dev, via, last_save, tree, out>>

memVars == <<heap, held, pc>>

vars == <<codecVars, keyVars, peerVars, sysVars, memVars>>

----------------------------------------------------------------------------
(* Values shared by every part of the model.                               *)

None == [is_some |-> FALSE]

Some(v) == [is_some |-> TRUE, value |-> v]

\* Outcome of a call: not made yet, returned a value, or panicked.
Idle == [tag |-> "idle"]

Ret(v) == [tag |-> "ret", value |-> v]

Panic == [tag |-> "panic"]

NULL == 0

AF_INET == 2

AF_INET6 == 10

ZeroBytes(n) == [i \in 1..n |-> 0]

\* mem with the bytes of src stored from position at on.
Splice(mem, at, src) ==
    [i \in 1..Len(mem) |->
        IF at <= i /\ i < at + Len(src) THEN src[i - at + 1] ELSE mem[i]]

V4(a, b, c, d) == [family |-> "V4", octets |-> <<a, b, c, d>>]

V6(octets) == [family |-> "V6", octets |-> octets]

----------------------------------------------------------------------------
(* net.rs: the address-family codec.                                       *)

\* Ipv4Addr::new(a, b, c, d)
Ipv4Addr_new(a, b, c, d) == V4(a, b, c, d)

\* Ipv6Addr::new(s1 .. s8): eight 16-bit segments, each stored big-endian.
Ipv6Addr_new(seg) ==
    V6([i \in 1..16 |->
        IF i % 2 = 1 THEN seg[(i + 1) \div 2] \div 256
                     ELSE seg[i \div 2] % 256])

\* The native (little-endian) load of the u32 field s_addr from its 4 bytes.
\* A u32 is kept as its two 16-bit halves <<low, high>>.
s_addr(b) == <<b[1] + 256 * b[2], b[3] + 256 * b[4]>>

\* u32::to_le_bytes
to_le_bytes(x) ==
    <<x[1] % 256, x[1] \div 256, x[2] % 256, x[2] \div 256>>

\* The native (little-endian) load of __u6_addr16[k] (k from 1) of an in6_addr.
u6_addr16(b, k) == b[2 * k - 1] + 256 * b[2 * k]

\* read_ip4_from_in_addr: in_addr is the 4 bytes of s_addr.
read_ip4_from_in_addr(in_addr) ==
    LET bytes == to_le_bytes(s_addr(in_addr))
    IN  Ipv4Addr_new(bytes[1], bytes[2], bytes[3], bytes[4])

\* read_ip6_from_in6_addr: in6_addr is 16 bytes, read as eight native u16.
read_ip6_from_in6_addr(in6_addr) ==
    Ipv6Addr_new([k \in 1..8 |-> u6_addr16(in6_addr, k)])

\* write_ip4_to_in_addr: copy_nonoverlapping of 4 elements of type u32, that
\* is 16 bytes, from the 4-byte octets array to the place of s_addr.  The 12
\* bytes read past the octets array are whatever lies behind it (stray).
write_ip4_to_in_addr(ip4, mem, at, stray) ==
    Splice(mem, at, ip4.octets \o stray)

\* write_ip6_to_in6_addr: __u6_addr8.copy_from_slice(octets), 16 bytes.
write_ip6_to_in6_addr(ip6, mem, at) ==
    Splice(mem, at, ip6.octets)

\* The endpoint union of a wg_peer (sockaddr / sockaddr_in / sockaddr_in6),
\* 28 bytes: the family, the port, and 24 more bytes.  sin_addr is
\* bytes[1..4]; sin6_flowinfo is bytes[1..4], sin6_addr is bytes[5..20].
ZeroSockaddr == [sa_family |-> 0, sin_port |-> 0, bytes |-> ZeroBytes(24)]

endpoint_to_sockaddr(ep, sa, stray) ==
    IF ep.addr.family = "V4"
    THEN [sa_family |-> AF_INET,
          sin_port  |-> ep.port,
          bytes     |-> write_ip4_to_in_addr(ep.addr, sa.bytes, 1, stray)]
    ELSE [sa_family |-> AF_INET6,
          sin_port  |-> ep.port,
          bytes     |-> write_ip6_to_in6_addr(ep.addr, sa.bytes, 5)]

\* sockaddr_to_endpoint, taking an unknown family for an unset one.
sockaddr_to_endpoint_lenient(sa) ==
    CASE sa.sa_family = AF_INET ->
            LET bytes == to_le_bytes(s_addr(SubSeq(sa.bytes, 1, 4)))
            IN  Ret(Some([addr |-> Ipv4Addr_new(bytes[1], bytes[2], bytes[3], bytes[4]),
                          port |-> sa.sin_port]))
      [] sa.sa_family = AF_INET6 ->
            Ret(Some([addr |-> read_ip6_from_in6_addr(SubSeq(sa.bytes, 5, 20)),
                      port |-> sa.sin_port]))
      [] OTHER -> Ret(None)

sockaddr_to_endpoint(sa) ==
    CASE sa.sa_family = AF_INET ->
            LET bytes == to_le_bytes(s_addr(SubSeq(sa.bytes, 1, 4)))
            IN  Ret(Some([addr |-> Ipv4Addr_new(bytes[1], bytes[2], bytes[3], bytes[4]),
                          port |-> sa.sin_port]))
      [] sa.sa_family = AF_INET6 ->
            Ret(Some([addr |-> read_ip6_from_in6_addr(SubSeq(sa.bytes, 5, 20)),
                      port |-> sa.sin_port]))
      [] sa.sa_family = 0 -> Ret(None)
      [] OTHER -> Panic

----------------------------------------------------------------------------
(* peer.rs: AllowedIp.                                                     *)

\* AllowedIp::new
AllowedIp_new(addr, netmask) == [address |-> addr, mask |-> netmask]

\* mem::zeroed::<wg_allowedip>(): family, the 16-byte ip4/ip6 union, cidr,
\* next_allowedip.
ZeroAllowedIp ==
    [family |-> 0, addr |-> ZeroBytes(16), cidr |-> 0, next_allowedip |-> NULL]

\* AllowedIp::handle
AllowedIp_handle(ip, stray) ==
    LET z == ZeroAllowedIp
        w == IF ip.address.family = "V4"
             THEN [z EXCEPT !.family = AF_INET,
                            !.addr = write_ip4_to_in_addr(ip.address, z.addr, 1, stray)]
             ELSE [z EXCEPT !.family = AF_INET6,
                            !.addr = write_ip6_to_in6_addr(ip.address, z.addr, 1)]
    IN  [w EXCEPT !.cidr = ip.mask]

\* AllowedIp::from_handle
AllowedIp_from_handle(h) ==
    CASE h.family = AF_INET ->
            Ret([address |-> read_ip4_from_in_addr(SubSeq(h.addr, 1, 4)),
                 mask    |-> h.cidr])
      [] h.family = AF_INET6 ->
            Ret([address |-> read_ip6_from_in6_addr(h.addr),
                 mask    |-> h.cidr])
      [] OTHER -> Panic

----------------------------------------------------------------------------
(* key.rs: Key and its Base64 text form.                                  *)

KEY_SIZE == 32

\* Key { bytes }
Key_from_bytes(bytes) == [bytes |-> bytes]

Ok(v) == [ok |-> TRUE, value |-> v]

Err(e) == [ok |-> FALSE, err |-> e]

\* The standard Base64 alphabet, as character codes: A-Z a-z 0-9 + /
Base64Alphabet ==
    [i \in 1..64 |->
        IF i <= 26 THEN 64 + i
        ELSE IF i <= 52 THEN 70 + i
        ELSE IF i <= 62 THEN i - 5
        ELSE IF i = 63 THEN 43 ELSE 47]

Base64Sym(v) == Base64Alphabet[v + 1]

\* The 6-bit value of a character, or -1 when it is not of the alphabet.
Base64Val(c) ==
    IF \E i \in 1..64 : Base64Alphabet[i] = c
    THEN (CHOOSE i \in 1..64 : Base64Alphabet[i] = c) - 1
    ELSE -1

\* base64::encode: 3 bytes to 4 characters, the last group padded with '='
\* (code 61).
RECURSIVE base64_encode(_)
base64_encode(b) ==
    IF Len(b) = 0 THEN <<>>
    ELSE IF Len(b) = 1 THEN
        <<Base64Sym(b[1] \div 4), Base64Sym((b[1] % 4) * 16), 61, 61>>
    ELSE IF Len(b) = 2 THEN
        <<Base64Sym(b[1] \div 4),
          Base64Sym((b[1] % 4) * 16 + b[2] \div 16),
          Base64Sym((b[2] % 16) * 4), 61>>
    ELSE
        <<Base64Sym(b[1] \div 4),
          Base64Sym((b[1] % 4) * 16 + b[2] \div 16),
          Base64Sym((b[2] % 16) * 4 + b[3] \div 64),
          Base64Sym(b[3] % 64)>> \o base64_encode(SubSeq(b, 4, Len(b)))

\* base64::decode, four characters at a time: Ok(bytes), or Err on a
\* character outside the alphabet, misplaced padding, a text that is no
\* whole number of groups, or non-zero bits behind the last byte.
RECURSIVE base64_decode(_)
base64_decode(t) ==
    IF Len(t) = 0 THEN Ok(<<>>)
    ELSE IF Len(t) < 4 THEN Err("decode")
    ELSE
        LET a == Base64Val(t[1])
            b == Base64Val(t[2])
            c == Base64Val(t[3])
            d == Base64Val(t[4])
            last == Len(t) = 4
        IN  IF a < 0 \/ b < 0 THEN Err("decode")
            ELSE IF last /\ t[3] = 61 /\ t[4] = 61 THEN
                IF b % 16 = 0 THEN Ok(<<a * 4 + b \div 16>>) ELSE Err("decode")
            ELSE IF c < 0 THEN Err("decode")
            ELSE IF last /\ t[4] = 61 THEN
                IF c % 4 = 0
                THEN Ok(<<a * 4 + b \div 16, (b % 16) * 16 + c \div 4>>)
                ELSE Err("decode")
            ELSE IF d < 0 THEN Err("decode")
            ELSE
                LET rest == base64_decode(SubSeq(t, 5, Len(t)))
                IN  IF rest.ok
                    THEN Ok(<<a * 4 + b \div 16, (b % 16) * 16 + c \div 4,
                              (c % 4) * 64 + d>> \o rest.value)
                    ELSE rest

\* Key::from_base64, missing its length check.
from_base64_unchecked(text) ==
    LET vec == base64_decode(text)
    IN  IF ~vec.ok THEN Err("InvalidBase64")
        ELSE Ok(Key_from_bytes(vec.value))

\* Key::from_base64
from_base64(text) ==
    LET vec == base64_decode(text)
    IN  IF ~vec.ok THEN Err("InvalidBase64")
        ELSE IF Len(vec.value) # KEY_SIZE THEN Err("InvalidLength")
        ELSE Ok(Key_from_bytes(vec.value))

\* Key::to_base64
to_base64(k) == base64_encode(k.bytes)

----------------------------------------------------------------------------
(* peer.rs: Peer.                                                         *)

\* Peer::new
Peer_new(public_key, ep) ==
    [public_key |-> Some(public_key), endpoint |-> ep, allowed_ips |-> <<>>]

\* Peer::set_endpoint
Peer_set_endpoint(p, ep) == [p EXCEPT !.endpoint = Some(ep)]

\* Peer::add_allowed_ip
Peer_add_allowed_ip(p, ip) ==
    [p EXCEPT !.allowed_ips = Append(@, ip)]

\* mem::zeroed::<wg_peer>(), with the members the code reads or writes: the
\* flag bits (as the set of flags that are set), the public key, the endpoint
\* union, the ends of the allowed-IP list and the next peer.
ZeroPeer ==
    [flags           |-> {},
     public_key      |-> ZeroBytes(KEY_SIZE),
     endpoint        |-> ZeroSockaddr,
     first_allowedip |-> NULL,
     last_allowedip  |-> NULL,
     next_peer       |-> NULL]

\* ptr.add(n) on a pointer into a buffer: slot numbers count from 1, so the
\* buffer's as_mut_ptr() is slot 1.
AsMutPtr == 1

PtrAdd(ptr, n) == ptr + n

\* The flags, public key and endpoint, with the public-key flag set whether
\* or not the peer has a key.
Peer_handle_record_keyed(p, stray) ==
    LET h0 == [ZeroPeer EXCEPT !.flags = {"WGPEER_HAS_PUBLIC_KEY"}]
        h1 == IF p.public_key.is_some
              THEN [h0 EXCEPT !.public_key = p.public_key.value.bytes]
              ELSE h0
        h2 == IF p.endpoint.is_some
              THEN [h1 EXCEPT !.endpoint =
                        endpoint_to_sockaddr(p.endpoint.value, h1.endpoint, stray)]
              ELSE [h1 EXCEPT !.endpoint = ZeroSockaddr]
    IN  [h2 EXCEPT !.flags = @ \cup {"WGPEER_REPLACE_ALLOWEDIPS"}]

\* The flags, public key and endpoint of Peer::handle (lines 146-159).
Peer_handle_record(p, stray) ==
    LET h0 == ZeroPeer
        h1 == IF p.public_key.is_some
              THEN [h0 EXCEPT !.flags = @ \cup {"WGPEER_HAS_PUBLIC_KEY"},
                              !.public_key = p.public_key.value.bytes]
              ELSE h0
        h2 == IF p.endpoint.is_some
              THEN [h1 EXCEPT !.endpoint =
                        endpoint_to_sockaddr(p.endpoint.value, h1.endpoint, stray)]
              ELSE [h1 EXCEPT !.endpoint = ZeroSockaddr]
    IN  [h2 EXCEPT !.flags = @ \cup {"WGPEER_REPLACE_ALLOWEDIPS"}]

\* The linking loop, linking the last record too.
LinkAllowedIps_overrun(ips) ==
    LET len == Len(ips)
    IN  [j \in 1..len |->
            LET i == j - 1
            IN  [ips[j] EXCEPT !.next_allowedip = PtrAdd(AsMutPtr, i + 1)]]

\* The linking loop of Peer::handle (lines 171-175), i counting from 0.
LinkAllowedIps(ips) ==
    LET len == Len(ips)
    IN  [j \in 1..len |->
            LET i == j - 1
            IN  IF i + 1 < len
                THEN [ips[j] EXCEPT !.next_allowedip = PtrAdd(AsMutPtr, i + 1)]
                ELSE ips[j]]

\* Peer::handle: the peer::Handle { handle, allowed_ips }.
Peer_handle(p, stray) ==
    LET h == Peer_handle_record(p, stray)
        allowed_ips == [j \in 1..Len(p.allowed_ips) |->
                            AllowedIp_handle(p.allowed_ips[j], stray)]
        len == Len(allowed_ips)
    IN  IF len # 0
        THEN [handle |-> [h EXCEPT !.first_allowedip = AsMutPtr,
                                   !.last_allowedip = PtrAdd(AsMutPtr, len - 1)],
              allowed_ips |-> LinkAllowedIps(allowed_ips)]
        ELSE [handle |-> [h EXCEPT !.first_allowedip = NULL,
                                   !.last_allowedip = NULL],
              allowed_ips |-> allowed_ips]

\* The walk of Peer::from_handle (lines 126-131): the records met from ip on.
RECURSIVE WalkAllowedIps(_, _)
WalkAllowedIps(buf, ip) ==
    IF ip = NULL THEN <<>>
    ELSE <<buf[ip]>> \o WalkAllowedIps(buf, buf[ip].next_allowedip)

\* Peer::from_handle on a wg_peer record h whose allowed-IP pointers refer to
\* buf.  A panic of a callee is a panic of the call.
Peer_from_handle(h, buf) ==
    LET public_key == IF "WGPEER_HAS_PUBLIC_KEY" \in h.flags
                      THEN Some(Key_from_bytes(h.public_key))
                      ELSE None
        ep == sockaddr_to_endpoint(h.endpoint)
        recs == WalkAllowedIps(buf, h.first_allowedip)
        ips == [j \in 1..Len(recs) |-> AllowedIp_from_handle(recs[j])]
    IN  IF ep = Panic \/ \E j \in 1..Len(ips) : ips[j] = Panic
        THEN Panic
        ELSE Ret([public_key  |-> public_key,
                  endpoint    |-> ep.value,
                  allowed_ips |-> [j \in 1..Len(ips) |-> ips[j].value]])

----------------------------------------------------------------------------
(* The embeddable WireGuard library and the interfaces behind it, as      *)
(* section 6 of the specification describes them: an interface has an     *)
(* optional private key, a listen port (0 when unset) and a list of peers *)
(* identified by their public keys; set-device applies the fields whose   *)
(* has-flag is set and replaces the lists whose replace-flag is set.      *)

Absent == [present |-> FALSE]

FreshInterface ==
    [present |-> TRUE, private_key |-> None, listen_port |-> 0, peers |-> <<>>]

\* wg_generate_public_key: a fixed function of the 32 private bytes.
wg_generate_public_key(private) ==
    [i \in 1..KEY_SIZE |-> (private[i] * 5 + 2 * i + 9) % 256]

\* wg_add_device: fails when the name is taken.
wg_add_device(s, name) ==
    IF s[name].present
    THEN [ok |-> FALSE, sys |-> s]
    ELSE [ok |-> TRUE, sys |-> [s EXCEPT ![name] = FreshInterface]]

\* What an interface keeps of a socket address: the address of its family.
StoreSockaddr(sa) ==
    IF sa.sa_family = AF_INET
    THEN [sa EXCEPT !.bytes = Splice(ZeroBytes(24), 1, SubSeq(sa.bytes, 1, 4))]
    ELSE sa

\* What an interface keeps of an allowed-IP record.
StoreAllowedIp(rec) ==
    [family |-> rec.family,
     addr   |-> IF rec.family = AF_INET
                THEN SubSeq(rec.addr, 1, 4) \o ZeroBytes(12)
                ELSE rec.addr,
     cidr   |-> rec.cidr]

\* The slot of the peer with this public key, or 0.
PeerSlot(peers, public_key) ==
    IF \E i \in 1..Len(peers) : peers[i].public_key = public_key
    THEN CHOOSE i \in 1..Len(peers) : peers[i].public_key = public_key
    ELSE 0

\* The allowed-IP records of a submitted peer, following its pointers.
RECURSIVE SubmittedIps(_, _)
SubmittedIps(buf, ip) ==
    IF ip = NULL THEN <<>>
    ELSE <<StoreAllowedIp(buf[ip])>> \o SubmittedIps(buf, buf[ip].next_allowedip)

\* One submitted peer applied to the interface's peers.
ApplyPeer(peers, p) ==
    LET slot == PeerSlot(peers, p.handle.public_key)
        old  == IF slot = 0
                THEN [public_key |-> p.handle.public_key,
                      endpoint   |-> ZeroSockaddr,
                      allowedips |-> <<>>]
                ELSE peers[slot]
        kept == IF "WGPEER_REPLACE_ALLOWEDIPS" \in p.handle.flags
                THEN <<>> ELSE old.allowedips
        new  == [public_key |-> old.public_key,
                 endpoint   |-> IF p.handle.endpoint.sa_family \in {AF_INET, AF_INET6}
                                THEN StoreSockaddr(p.handle.endpoint)
                                ELSE old.endpoint,
                 allowedips |-> kept \o SubmittedIps(p.allowed_ips,
                                                     p.handle.first_allowedip)]
    IN  IF slot = 0 THEN Append(peers, new) ELSE [peers EXCEPT ![slot] = new]

\* The submitted peers applied in list order, following next_peer.
RECURSIVE ApplyPeers(_, _, _)
ApplyPeers(peers, buf, ptr) ==
    IF ptr = NULL THEN peers
    ELSE ApplyPeers(ApplyPeer(peers, buf[ptr]), buf, buf[ptr].handle.next_peer)

\* The peers a submitted tree reaches, following next_peer.
RECURSIVE SubmittedPeers(_, _)
SubmittedPeers(buf, ptr) ==
    IF ptr = NULL THEN <<>>
    ELSE <<buf[ptr]>> \o SubmittedPeers(buf, buf[ptr].handle.next_peer)

\* CStr::from_ptr: the bytes before the first NUL.
CStr_from_ptr(buf) ==
    LET n == CHOOSE k \in 0..Len(buf) :
                /\ \A j \in 1..k : buf[j] # 0
                /\ k = Len(buf) \/ buf[k + 1] = 0
    IN  SubSeq(buf, 1, n)

\* wg_set_device on the tree t = [h: the wg_device, peers: the buffer its peer
\* pointers refer to]: fails when the interface is absent or a peer has no
\* public key.
wg_set_device(s, t) ==
    LET name == CStr_from_ptr(t.h.name)
        old  == s[name]
        subs == SubmittedPeers(t.peers, t.h.first_peer)
        new  == [present     |-> TRUE,
                 private_key |-> IF "WGDEVICE_HAS_PRIVATE_KEY" \in t.h.flags
                                 THEN Some(t.h.private_key) ELSE old.private_key,
                 listen_port |-> IF "WGDEVICE_HAS_LISTEN_PORT" \in t.h.flags
                                 THEN t.h.listen_port ELSE old.listen_port,
                 peers       |-> ApplyPeers(
                                    IF "WGDEVICE_REPLACE_PEERS" \in t.h.flags
                                    THEN <<>> ELSE old.peers,
                                    t.peers, t.h.first_peer)]
    IN  IF \/ name \notin DOMAIN s
           \/ ~old.present
           \/ \E i \in 1..Len(subs) : "WGPEER_HAS_PUBLIC_KEY" \notin subs[i].handle.flags
        THEN [ok |-> FALSE, sys |-> s]
        ELSE [ok |-> TRUE, sys |-> [s EXCEPT ![name] = new]]

\* The tree wg_get_device hands back for an interface.
InterfaceTree(name, cfg) ==
    LET n == Len(cfg.peers)
        ipbuf(p) == [j \in 1..Len(p.allowedips) |->
                        [family         |-> p.allowedips[j].family,
                         addr           |-> p.allowedips[j].addr,
                         cidr           |-> p.allowedips[j].cidr,
                         next_allowedip |-> IF j < Len(p.allowedips) THEN j + 1 ELSE NULL]]
        pbuf == [i \in 1..n |->
                    [handle |->
                        [flags           |-> {"WGPEER_HAS_PUBLIC_KEY"},
                         public_key      |-> cfg.peers[i].public_key,
                         endpoint        |-> cfg.peers[i].endpoint,
                         first_allowedip |-> IF Len(cfg.peers[i].allowedips) > 0
                                             THEN 1 ELSE NULL,
                         last_allowedip  |-> Len(cfg.peers[i].allowedips),
                         next_peer       |-> IF i < n THEN i + 1 ELSE NULL],
                     allowed_ips |-> ipbuf(cfg.peers[i])]]
    IN  [h |-> [name        |-> Splice(ZeroBytes(16), 1, name),
                flags       |-> (IF cfg.private_key.is_some
                                 THEN {"WGDEVICE_HAS_PRIVATE_KEY", "WGDEVICE_HAS_PUBLIC_KEY"}
                                 ELSE {})
                                \cup (IF cfg.listen_port # 0
                                      THEN {"WGDEVICE_HAS_LISTEN_PORT"} ELSE {}),
                public_key  |-> IF cfg.private_key.is_some
                                THEN wg_generate_public_key(cfg.private_key.value)
                                ELSE ZeroBytes(KEY_SIZE),
                private_key |-> IF cfg.private_key.is_some
                                THEN cfg.private_key.value ELSE ZeroBytes(KEY_SIZE),
                listen_port |-> cfg.listen_port,
                first_peer  |-> IF n > 0 THEN 1 ELSE NULL,
                last_peer   |-> n],
         peers |-> pbuf]

\* wg_get_device: fails when the interface is absent.
wg_get_device(s, name) ==
    IF name \in DOMAIN s /\ s[name].present
    THEN Ok(InterfaceTree(name, s[name]))
    ELSE Err("os error")

\* wg_list_device_names: the names, each followed by a NUL, and a final NUL.
RECURSIVE wg_list_device_names(_)
wg_list_device_names(names) ==
    IF names = <<>> THEN <<0>>
    ELSE Head(names) \o <<0>> \o wg_list_device_names(Tail(names))

----------------------------------------------------------------------------
(* device.rs: Device.                                                     *)

\* Key::derive_public
derive_public(k) == Key_from_bytes(wg_generate_public_key(k.bytes))

\* The Device that Device::create returns (lines 58-63).
NewDevice(name, private_key) ==
    [name |-> name, private_key |-> private_key, listen_port |-> None, peers |-> <<>>]

\* Device::set_listen_port
Device_set_listen_port(d, port) == [d EXCEPT !.listen_port = Some(port)]

\* add_peer putting the peer at the front of the list.
Device_add_peer_front(d, p) == [d EXCEPT !.peers = <<p>> \o @]

\* Device::add_peer
Device_add_peer(d, p) == [d EXCEPT !.peers = Append(@, p)]

\* mem::zeroed::<wg_device>(), with the members the code reads or writes.
ZeroDevice ==
    [name        |-> ZeroBytes(16),
     flags       |-> {},
     public_key  |-> ZeroBytes(KEY_SIZE),
     private_key |-> ZeroBytes(KEY_SIZE),
     listen_port |-> 0,
     first_peer  |-> NULL,
     last_peer   |-> NULL]

\* The name, keys, port and flags, asking to replace the peers only when the
\* device has some.
Device_handle_record_lazy(d) ==
    LET h0 == [ZeroDevice EXCEPT !.name = Splice(@, 1, d.name)]
        h1 == IF d.private_key.is_some
              THEN [h0 EXCEPT !.flags = @ \cup {"WGDEVICE_HAS_PRIVATE_KEY"},
                              !.private_key = d.private_key.value.bytes,
                              !.public_key = derive_public(d.private_key.value).bytes]
              ELSE h0
        h2 == IF d.listen_port.is_some
              THEN [h1 EXCEPT !.flags = @ \cup {"WGDEVICE_HAS_LISTEN_PORT"},
                              !.listen_port = d.listen_port.value]
              ELSE h1
    IN  IF d.peers # <<>>
        THEN [h2 EXCEPT !.flags = @ \cup {"WGDEVICE_REPLACE_PEERS"}]
        ELSE h2

\* The name, keys, port and flags of Device::handle (lines 131-152).
Device_handle_record(d) ==
    LET h0 == [ZeroDevice EXCEPT !.name = Splice(@, 1, d.name)]
        h1 == IF d.private_key.is_some
              THEN [h0 EXCEPT !.flags = @ \cup {"WGDEVICE_HAS_PRIVATE_KEY"},
                              !.private_key = d.private_key.value.bytes,
                              !.public_key = derive_public(d.private_key.value).bytes]
              ELSE h0
        h2 == IF d.listen_port.is_some
              THEN [h1 EXCEPT !.flags = @ \cup {"WGDEVICE_HAS_LISTEN_PORT"},
                              !.listen_port = d.listen_port.value]
              ELSE h1
    IN  [h2 EXCEPT !.flags = @ \cup {"WGDEVICE_REPLACE_PEERS"}]

\* The linking loop, leaving every next_peer null.
LinkPeers_unlinked(peers) ==
    [j \in 1..Len(peers) |-> [peers[j] EXCEPT !.handle.next_peer = NULL]]

\* The linking loop of Device::handle (lines 164-170), i counting from 0.
LinkPeers(peers) ==
    LET peers_len == Len(peers)
    IN  [j \in 1..peers_len |->
            LET i == j - 1
            IN  IF i + 1 < peers_len
                THEN [peers[j] EXCEPT !.handle.next_peer = PtrAdd(AsMutPtr, i + 1)]
                ELSE [peers[j] EXCEPT !.handle.next_peer = NULL]]

\* Device::handle: the Handle { h, peers }.
Device_handle(d, stray) ==
    LET h == Device_handle_record(d)
        peers == [j \in 1..Len(d.peers) |-> Peer_handle(d.peers[j], stray)]
    IN  IF Len(peers) # 0
        THEN [h |-> [h EXCEPT !.first_peer = AsMutPtr,
                              !.last_peer = PtrAdd(AsMutPtr, Len(peers) - 1)],
              peers |-> LinkPeers(peers)]
        ELSE [h |-> [h EXCEPT !.first_peer = NULL, !.last_peer = NULL],
              peers |-> peers]

\* The walk of Device::from_handle (lines 109-112): the slots met from peer on.
RECURSIVE WalkPeers(_, _)
WalkPeers(buf, p) ==
    IF p = NULL THEN <<>>
    ELSE <<buf[p]>> \o WalkPeers(buf, buf[p].handle.next_peer)

\* Device::from_handle on the tree t.  A panic of a callee is a panic of the
\* call.
Device_from_handle(t) ==
    LET name == CStr_from_ptr(t.h.name)
        private_key == IF "WGDEVICE_HAS_PRIVATE_KEY" \in t.h.flags
                       THEN Some(Key_from_bytes(t.h.private_key))
                       ELSE None
        port == t.h.listen_port
        listen_port == IF port > 0 THEN Some(port) ELSE None
        slots == WalkPeers(t.peers, t.h.first_peer)
        peers == [j \in 1..Len(slots) |->
                    Peer_from_handle(slots[j].handle, slots[j].allowed_ips)]
    IN  IF \E j \in 1..Len(peers) : peers[j] = Panic
        THEN Panic
        ELSE Ret([name        |-> name,
                  private_key |-> private_key,
                  listen_port |-> listen_port,
                  peers       |-> [j \in 1..Len(peers) |-> peers[j].value]])

\* Device::open: Ok(device), Err(os error), or a panic.  denied: the library
\* refuses the call.
Device_open(s, name, denied) ==
    LET got == wg_get_device(s, name)
    IN  IF denied \/ ~got.ok THEN Ret(Err("os error"))
        ELSE LET d == Device_from_handle(got.value)
             IN  IF d = Panic THEN Panic ELSE Ret(Ok(d.value))

\* The name loop of Device::all (lines 29-34): the names of a packed list,
\* from position pointer on.
RECURSIVE ParseNames(_, _)
ParseNames(buf, pointer) ==
    IF buf[pointer] = 0 THEN <<>>
    ELSE LET name == CStr_from_ptr(SubSeq(buf, pointer, Len(buf)))
         IN  <<name>> \o ParseNames(buf, pointer + Len(name) + 1)

\* The open loop of Device::all (lines 39-43), with the names opened so far.
RECURSIVE OpenEach(_, _, _, _, _)
OpenEach(names, s, denied, devices, opened) ==
    IF names = <<>> THEN [result |-> Ret(Ok(devices)), opened |-> opened]
    ELSE LET name == Head(names)
             r == Device_open(s, name, name \in denied)
         IN  IF r = Panic
             THEN [result |-> Panic, opened |-> Append(opened, name)]
             ELSE IF ~r.value.ok
             THEN [result |-> Ret(Err(r.value.err)), opened |-> Append(opened, name)]
             ELSE OpenEach(Tail(names), s, denied,
                           Append(devices, r.value.value), Append(opened, name))

\* The open loop, leaving out the devices that fail to open.
RECURSIVE OpenEach_skipping(_, _, _, _, _)
OpenEach_skipping(names, s, denied, devices, opened) ==
    IF names = <<>> THEN [result |-> Ret(Ok(devices)), opened |-> opened]
    ELSE LET name == Head(names)
             r == Device_open(s, name, name \in denied)
         IN  IF r = Panic
             THEN [result |-> Panic, opened |-> Append(opened, name)]
             ELSE IF ~r.value.ok
             THEN OpenEach_skipping(Tail(names), s, denied, devices,
                                    Append(opened, name))
             ELSE OpenEach_skipping(Tail(names), s, denied,
                                    Append(devices, r.value.value),
                                    Append(opened, name))

\* Device::all, leaving out the devices that fail to open.
Device_all_skipping(buf, s, denied) ==
    OpenEach_skipping(ParseNames(buf, 1), s, denied, <<>>, <<>>)

\* Device::all on the packed name list buf.
Device_all(buf, s, denied) ==
    OpenEach(ParseNames(buf, 1), s, denied, <<>>, <<>>)

----------------------------------------------------------------------------
(* Inputs.                                                                 *)

\* What the 12 bytes behind a 4-byte octets array may hold: each of them this
\* value.
StrayValues == {0, 170}

Stray(v) == [i \in 1..12 |-> v]

Ip4Addrs ==
    {V4(10, 0, 0, 1), V4(203, 0, 113, 5), V4(1, 1, 1, 1), V4(0, 0, 0, 0),
     V4(255, 255, 255, 255)}

Ip6Loopback == V6([i \in 1..16 |-> IF i = 16 THEN 1 ELSE 0])

Ip6Doc ==
    V6(<<32, 1, 13, 184, 0, 0, 0, 0, 0, 0, 0, 0, 0, 0, 0, 1>>)

Ip6LinkLocal ==
    V6(<<254, 128, 0, 0, 0, 0, 0, 0, 2, 26, 43, 255, 254, 60, 77, 94>>)

Ip6Addrs == {V6(ZeroBytes(16)), Ip6Loopback, Ip6Doc, Ip6LinkLocal}

IpAddrs == Ip4Addrs \cup Ip6Addrs

Ports == {0, 1, 1337, 42069, 51820, 65535}

Endpoints == [addr : IpAddrs, port : Ports]

Masks == {0, 24, 32, 128, 255}

AllowedIps == {AllowedIp_new(a, m) : a \in IpAddrs, m \in Masks}

\* Family discriminators a foreign record may carry: unset, the two known
\* ones, and two the code does not know (AF_UNIX, AF_PACKET).
ForeignFamilies == {0, AF_INET, AF_INET6, 1, 17}

ForeignBodies == {ZeroBytes(24), [i \in 1..24 |-> i]}

KeyA == Key_from_bytes([i \in 1..KEY_SIZE |-> i])

KeyB == Key_from_bytes([i \in 1..KEY_SIZE |-> 255 - 7 * i])

KeyC == Key_from_bytes([i \in 1..KEY_SIZE |-> (i * i * 31) % 256])

Keys == {Key_from_bytes(ZeroBytes(KEY_SIZE)), KeyA, KeyB, KeyC,
         Key_from_bytes([i \in 1..KEY_SIZE |-> 255])}

\* Byte strings of lengths around and away from KEY_SIZE.
ByteStrings ==
    {[i \in 1..n |-> (i * 37) % 256] : n \in {0, 1, 2, 3, 16, 30, 31, 32, 33, 34, 48}}

\* A text with one character replaced: by '!' (33, outside the alphabet),
\* by '=' (61, padding) or by 'B' (66, of the alphabet).
Tampered(t) ==
    {Splice(t, i, <<c>>) : i \in 1..Len(t), c \in {33, 61, 66}}

Texts ==
    {base64_encode(b) : b \in ByteStrings}
        \cup Tampered(base64_encode(KeyA.bytes))
        \cup Tampered(base64_encode([i \in 1..3 |-> 255]))
        \cup {<<65>>, <<65, 65>>, <<65, 65, 65>>, <<61, 61, 61, 61>>,
              <<65, 65, 65, 65, 65>>}

\* Peers are built from these.
PeerKeys == {KeyB, KeyC}

Ep4 == [addr |-> V4(203, 0, 113, 5), port |-> 51820]

Ep6 == [addr |-> Ip6Doc, port |-> 42069]

PeerEndpoints == {Ep4, Ep6}

PeerIps ==
    {AllowedIp_new(V4(10, 0, 0, 1), 32), AllowedIp_new(V4(10, 0, 0, 0), 24),
     AllowedIp_new(Ip6Loopback, 128)}

\* The most allowed IPs a peer is given.
MaxAllowedIps == 2

\* Peer records as the library may hand them over: with and without the
\* public-key flag, with an unset, a known and an unknown endpoint family.
ForeignPeers ==
    {[handle |-> [ZeroPeer EXCEPT !.flags = f,
                                  !.public_key = KeyB.bytes,
                                  !.endpoint = [sa_family |-> fam, sin_port |-> 1337,
                                                bytes |-> [i \in 1..24 |-> i]],
                                  !.first_allowedip = IF ips = <<>> THEN NULL ELSE 1,
                                  !.last_allowedip = Len(ips)],
      allowed_ips |-> ips] :
        f \in {{}, {"WGPEER_HAS_PUBLIC_KEY"}},
        fam \in {0, AF_INET, AF_INET6, 17},
        ips \in {<<>>,
                 <<[family |-> AF_INET, addr |-> [i \in 1..16 |-> i], cidr |-> 24,
                    next_allowedip |-> 2],
                   [family |-> AF_INET6, addr |-> [i \in 1..16 |-> 2 * i], cidr |-> 64,
                    next_allowedip |-> NULL]>>}}

\* Interface names, as bytes: "wg0", "wg1", "wg2".
Wg0 == <<119, 103, 48>>

Wg1 == <<119, 103, 49>>

Wg2 == <<119, 103, 50>>

Names == {Wg0, Wg1, Wg2}

Callers == {1, 2}

\* The device the callers of Spec create, open and save.
SpecNames == {Wg0}

PrivateKeys == {None, Some(KeyA)}

ListenPorts == {0, 1337}

\* The port the callers of Spec set.
SpecPorts == {1337}

\* A peer with an IPv4 endpoint, an IPv4 and an IPv6 allowed IP.
PeerA ==
    Peer_add_allowed_ip(
        Peer_add_allowed_ip(Peer_new(KeyB, Some(Ep4)), AllowedIp_new(V4(10, 0, 0, 1), 32)),
        AllowedIp_new(Ip6Loopback, 128))

\* A peer with no endpoint and no allowed IP.
PeerB == Peer_new(KeyC, None)

PeerPool == {PeerA, PeerB}

\* The most peers a device is given.
MaxPeers == 2

----------------------------------------------------------------------------
(* The parts of the state at rest.                                         *)

CodecAtRest ==
    /\ endpoint = None
    /\ saddr = ZeroSockaddr
    /\ ep_out = Idle
    /\ allowed_ip = None
    /\ allowedip_h = ZeroAllowedIp
    /\ allowedip_out = Idle

KeyAtRest ==
    /\ key = None
    /\ b64 = <<>>
    /\ key_out = Idle

PeerAtRest ==
    /\ peer = None
    /\ peer_h = None
    /\ peer_out = Idle

NoOut == [op |-> "none"]

\* The addresses of the heap: room for the buffers of one tree per caller.
Addresses == 1..(Cardinality(Callers) * (1 + MaxPeers))

\* An address the allocator has not handed out yet.  A buffer is known by
\* its address and its generation, the number of allocations made there.
Unused == [state |-> "unused", len |-> 0, gen |-> 0, calls |-> 0]

\* The buffer pointer of a Vec that has not allocated.
NoBuffer == [alloc |-> NULL, gen |-> 0]

MemAtRest ==
    /\ heap = [a \in Addresses |-> Unused]
    /\ held = [c \in Callers |-> None]
    /\ pc = [c \in Callers |-> "idle"]

SysAtRest ==
    /\ sys = [n \in Names |-> Absent]
    /\ dev = [c \in Callers |-> None]
    /\ via = [c \in Callers |-> "none"]
    /\ last_save = None
    /\ tree = None
    /\ out = NoOut

----------------------------------------------------------------------------
(* SpecCodec: the codec and AllowedIp marshaling applied to bounded inputs.*)

\* Each run encodes or receives one value and then decodes it.

\* endpoint_to_sockaddr into a zeroed buffer
EncodeEndpoint ==
    \E ep \in Endpoints, s \in StrayValues :
        /\ CodecAtRest
        /\ endpoint' = Some(ep)
        /\ saddr' = endpoint_to_sockaddr(ep, ZeroSockaddr, Stray(s))
        /\ ep_out' = Idle
        /\ UNCHANGED <<allowed_ip, allowedip_h, allowedip_out, keyVars, peerVars, sysVars, memVars>>

\* a socket address handed over by the library
ForeignSockaddr ==
    \E f \in ForeignFamilies, p \in Ports, b \in ForeignBodies :
        /\ CodecAtRest
        /\ endpoint' = None
        /\ saddr' = [sa_family |-> f, sin_port |-> p, bytes |-> b]
        /\ ep_out' = Idle
        /\ UNCHANGED <<allowed_ip, allowedip_h, allowedip_out, keyVars, peerVars, sysVars, memVars>>

DecodeSockaddr ==
    /\ ep_out = Idle
    /\ ep_out' = sockaddr_to_endpoint(saddr)
    /\ UNCHANGED <<endpoint, saddr, allowed_ip, allowedip_h, allowedip_out, keyVars, peerVars, sysVars, memVars>>

EncodeAllowedIp ==
    \E ip \in AllowedIps, s \in StrayValues :
        /\ CodecAtRest
        /\ allowed_ip' = Some(ip)
        /\ allowedip_h' = AllowedIp_handle(ip, Stray(s))
        /\ allowedip_out' = Idle
        /\ UNCHANGED <<endpoint, saddr, ep_out, keyVars, peerVars, sysVars, memVars>>

\* an allowed-IP record handed over by the library
ForeignAllowedIp ==
    \E f \in ForeignFamilies, m \in Masks :
        /\ CodecAtRest
        /\ allowed_ip' = None
        /\ allowedip_h' = [family |-> f, addr |-> [i \in 1..16 |-> i],
                           cidr |-> m, next_allowedip |-> NULL]
        /\ allowedip_out' = Idle
        /\ UNCHANGED <<endpoint, saddr, ep_out, keyVars, peerVars, sysVars, memVars>>

DecodeAllowedIp ==
    /\ allowedip_out = Idle
    /\ allowedip_out' = AllowedIp_from_handle(allowedip_h)
    /\ UNCHANGED <<endpoint, saddr, ep_out, allowed_ip, allowedip_h, keyVars, peerVars, sysVars, memVars>>

NextCodec ==
    \/ EncodeEndpoint
    \/ ForeignSockaddr
    \/ DecodeSockaddr
    \/ EncodeAllowedIp
    \/ ForeignAllowedIp
    \/ DecodeAllowedIp

InitCodec == CodecAtRest /\ KeyAtRest /\ PeerAtRest /\ MemAtRest /\ SysAtRest

SpecCodec == InitCodec /\ [][NextCodec]_vars

----------------------------------------------------------------------------
(* SpecKey: the Key text codec applied to bounded inputs.                  *)

\* Each run takes one text, from a key or from the caller, and parses it.

ToBase64 ==
    \E k \in Keys :
        /\ KeyAtRest
        /\ key' = Some(k)
        /\ b64' = to_base64(k)
        /\ key_out' = Idle
        /\ UNCHANGED <<codecVars, peerVars, sysVars, memVars>>

SupplyText ==
    \E t \in Texts :
        /\ KeyAtRest
        /\ key' = None
        /\ b64' = t
        /\ key_out' = Idle
        /\ UNCHANGED <<codecVars, peerVars, sysVars, memVars>>

FromBase64 ==
    /\ key_out = Idle
    /\ key_out' = Ret(from_base64(b64))
    /\ UNCHANGED <<key, b64, codecVars, peerVars, sysVars, memVars>>

NextKey ==
    \/ ToBase64
    \/ SupplyText
    \/ FromBase64

InitKey == CodecAtRest /\ KeyAtRest /\ PeerAtRest /\ MemAtRest /\ SysAtRest

SpecKey == InitKey /\ [][NextKey]_vars

----------------------------------------------------------------------------
(* SpecPeer: one Peer built by its constructor and mutators, encoded by    *)
(* Peer::handle and decoded by Peer::from_handle.                          *)

PeerNew ==
    \E k \in PeerKeys, ep \in {None} \cup {Some(e) : e \in PeerEndpoints} :
        /\ PeerAtRest
        /\ peer' = Some(Peer_new(k, ep))
        /\ UNCHANGED <<peer_h, peer_out, codecVars, keyVars, sysVars, memVars>>

PeerSetEndpoint ==
    \E ep \in PeerEndpoints :
        /\ peer.is_some /\ ~peer_h.is_some
        /\ peer' = Some(Peer_set_endpoint(peer.value, ep))
        /\ UNCHANGED <<peer_h, peer_out, codecVars, keyVars, sysVars, memVars>>

PeerAddAllowedIp ==
    \E ip \in PeerIps :
        /\ peer.is_some /\ ~peer_h.is_some
        /\ Len(peer.value.allowed_ips) < MaxAllowedIps
        /\ peer' = Some(Peer_add_allowed_ip(peer.value, ip))
        /\ UNCHANGED <<peer_h, peer_out, codecVars, keyVars, sysVars, memVars>>

PeerHandle ==
    \E s \in StrayValues :
        /\ peer.is_some /\ ~peer_h.is_some
        /\ peer_h' = Some(Peer_handle(peer.value, Stray(s)))
        /\ UNCHANGED <<peer, peer_out, codecVars, keyVars, sysVars, memVars>>

\* a peer record handed over by the library
ForeignPeer ==
    \E f \in ForeignPeers :
        /\ PeerAtRest
        /\ peer_h' = Some(f)
        /\ UNCHANGED <<peer, peer_out, codecVars, keyVars, sysVars, memVars>>

PeerFromHandle ==
    /\ peer_h.is_some /\ peer_out = Idle
    /\ peer_out' = Peer_from_handle(peer_h.value.handle, peer_h.value.allowed_ips)
    /\ UNCHANGED <<peer, peer_h, codecVars, keyVars, sysVars, memVars>>

NextPeer ==
    \/ PeerNew
    \/ PeerSetEndpoint
    \/ PeerAddAllowedIp
    \/ PeerHandle
    \/ ForeignPeer
    \/ PeerFromHandle

InitPeer == CodecAtRest /\ KeyAtRest /\ PeerAtRest /\ MemAtRest /\ SysAtRest

SpecPeer == InitPeer /\ [][NextPeer]_vars

----------------------------------------------------------------------------
(* Spec: callers create, open, mutate, save and drop the device; the       *)
(* library applies each save to the system.                                *)

\* The record of the last save once caller c no longer holds the Device it
\* held then.
Released(saved, c) ==
    IF saved.is_some
    THEN Some([saved.value EXCEPT !.holders = @ \ {c}])
    ELSE saved

\* Device::create.  The name is taken from SpecNames, so CString::new does
\* not panic.
Create(c) ==
    \E name \in SpecNames, private_key \in PrivateKeys :
        LET r == wg_add_device(sys, name)
        IN  /\ ~dev[c].is_some
            /\ sys' = r.sys
            /\ dev' = IF r.ok
                      THEN [dev EXCEPT ![c] = Some(NewDevice(name, private_key))]
                      ELSE dev
            /\ via' = IF r.ok THEN [via EXCEPT ![c] = "create"] ELSE via
            /\ tree' = None
            /\ out' = NoOut
            /\ UNCHANGED <<last_save, codecVars, keyVars, peerVars, memVars>>

\* Device::open
Open(c) ==
    \E name \in SpecNames, denied \in BOOLEAN :
        LET r == Device_open(sys, name, denied)
            opened == r # Panic /\ r.value.ok
        IN  /\ ~dev[c].is_some
            /\ dev' = IF opened THEN [dev EXCEPT ![c] = Some(r.value.value)] ELSE dev
            /\ via' = IF opened THEN [via EXCEPT ![c] = "open"] ELSE via
            /\ tree' = None
            /\ out' = [op |-> "open", caller |-> c, name |-> name, result |-> r]
            /\ UNCHANGED <<sys, last_save, codecVars, keyVars, peerVars, memVars>>

\* Device::set_listen_port
SetListenPort(c) ==
    \E port \in SpecPorts :
        /\ dev[c].is_some
        /\ dev' = [dev EXCEPT ![c] = Some(Device_set_listen_port(dev[c].value, port))]
        /\ tree' = None
        /\ out' = NoOut
        /\ UNCHANGED <<sys, via, last_save, codecVars, keyVars, peerVars, memVars>>

\* Device::add_peer, of a peer of the pool whose public key the device does
\* not hold yet.
AddPeer(c) ==
    \E p \in PeerPool :
        /\ dev[c].is_some
        /\ \A i \in 1..Len(dev[c].value.peers) :
              dev[c].value.peers[i].public_key # p.public_key
        /\ dev' = [dev EXCEPT ![c] = Some(Device_add_peer(dev[c].value, p))]
        /\ tree' = None
        /\ out' = NoOut
        /\ UNCHANGED <<sys, via, last_save, codecVars, keyVars, peerVars, memVars>>

\* Device::save: builds the Handle, submits it with wg_set_device, and
\* consumes the Device.  refused: the library rejects the call.
Save(c) ==
    \E s \in StrayValues, refused \in BOOLEAN :
        /\ dev[c].is_some
        /\ LET d == dev[c].value
               handle == Device_handle(d, Stray(s))
               r == IF refused THEN [ok |-> FALSE, sys |-> sys]
                    ELSE wg_set_device(sys, handle)
           IN  /\ sys' = r.sys
               /\ last_save' = IF r.ok
                               THEN Some([caller  |-> c,
                                          via     |-> via[c],
                                          holders |-> {x \in Callers \ {c} :
                                                        via[x] = "open"}])
                               ELSE Released(last_save, c)
               /\ out' = IF r.ok
                         THEN [op |-> "save", caller |-> c, ok |-> TRUE, via |-> via[c],
                               device |-> d, prev |-> last_save]
                         ELSE [op |-> "save", caller |-> c, ok |-> FALSE]
        /\ dev' = [dev EXCEPT ![c] = None]
        /\ via' = [via EXCEPT ![c] = "none"]
        /\ tree' = None
        /\ UNCHANGED <<codecVars, keyVars, peerVars, memVars>>

\* The caller lets go of its Device.
Drop(c) ==
    /\ dev[c].is_some
    /\ dev' = [dev EXCEPT ![c] = None]
    /\ via' = [via EXCEPT ![c] = "none"]
    /\ tree' = None
    /\ out' = NoOut
    /\ last_save' = Released(last_save, c)
    /\ UNCHANGED <<sys, codecVars, keyVars, peerVars, memVars>>

Next ==
    \E c \in Callers :
        \/ Create(c)
        \/ Open(c)
        \/ SetListenPort(c)
        \/ AddPeer(c)
        \/ Save(c)
        \/ Drop(c)

Init == CodecAtRest /\ KeyAtRest /\ PeerAtRest /\ MemAtRest /\ SysAtRest

Spec == Init /\ [][Next]_vars

----------------------------------------------------------------------------
(* SpecHandle: Device::handle applied to bounded Devices.                  *)

\* A peer with no public key, as Peer::from_handle builds it from a record
\* whose public-key flag is not set.
KeylessPeer ==
    Peer_from_handle([ZeroPeer EXCEPT !.endpoint = endpoint_to_sockaddr(Ep4, ZeroSockaddr, Stray(0))],
                     <<>>).value

RECURSIVE SeqsUpTo(_, _)
SeqsUpTo(S, n) ==
    IF n = 0 THEN {<<>>}
    ELSE SeqsUpTo(S, n - 1)
            \cup {Append(q, x) : q \in {r \in SeqsUpTo(S, n - 1) : Len(r) = n - 1}, x \in S}

HandleDevices ==
    [name        : {Wg0},
     private_key : PrivateKeys,
     listen_port : {None} \cup {Some(port) : port \in ListenPorts},
     peers       : SeqsUpTo(PeerPool \cup {KeylessPeer}, MaxPeers)]

InitHandle ==
    /\ CodecAtRest /\ KeyAtRest /\ PeerAtRest /\ MemAtRest
    /\ sys = [n \in Names |-> Absent]
    /\ \E d \in HandleDevices : dev = [c \in Callers |-> IF c = 1 THEN Some(d) ELSE None]
    /\ via = [c \in Callers |-> "none"]
    /\ last_save = None
    /\ tree = None
    /\ out = NoOut

\* Device::handle
BuildHandle(c) ==
    \E s \in StrayValues :
        /\ dev[c].is_some /\ ~tree.is_some
        /\ tree' = Some(Device_handle(dev[c].value, Stray(s)))
        /\ UNCHANGED <<sys, dev, via, last_save, out, codecVars, keyVars, peerVars, memVars>>

NextHandle == \E c \in Callers : BuildHandle(c)

SpecHandle == InitHandle /\ [][NextHandle]_vars

----------------------------------------------------------------------------
(* SpecAll: Device::all on systems with several interfaces.                *)

\* An interface after a save of a device with a key, a port and a peer.
ConfiguredInterface(name) ==
    wg_set_device(
        [n \in Names |-> FreshInterface],
        Device_handle(
            Device_add_peer(
                Device_set_listen_port(NewDevice(name, Some(KeyA)), 1337),
                Peer_add_allowed_ip(Peer_new(KeyB, Some(Ep4)),
                                    AllowedIp_new(V4(10, 0, 0, 1), 32))),
            Stray(0))).sys[name]

\* The orders in which the enumerator may report the names of S.
Orders(S) ==
    {q \in [1..Cardinality(S) -> S] : \A i, j \in 1..Cardinality(S) : q[i] = q[j] => i = j}

Systems ==
    {[n \in Names |-> CASE k[n] = 0 -> Absent
                        [] k[n] = 1 -> FreshInterface
                        [] OTHER    -> ConfiguredInterface(n)] : k \in [Names -> 0..2]}

InitSystems ==
    /\ CodecAtRest /\ KeyAtRest /\ PeerAtRest /\ MemAtRest
    /\ sys \in Systems
    /\ dev = [c \in Callers |-> None]
    /\ via = [c \in Callers |-> "none"]
    /\ last_save = None
    /\ tree = None
    /\ out = NoOut

\* Device::all: the enumerator reports the present interfaces in some order;
\* denied: the names whose wg_get_device the library refuses.
All(c) ==
    \E listing \in Orders({n \in Names : sys[n].present}), denied \in SUBSET Names :
        LET r == Device_all(wg_list_device_names(listing), sys, denied)
        IN  /\ out = NoOut
            /\ out' = [op |-> "all", caller |-> c, listing |-> listing,
                       denied |-> denied, result |-> r.result, opened |-> r.opened]
            /\ tree' = None
            /\ UNCHANGED <<sys, dev, via, last_save, codecVars, keyVars, peerVars, memVars>>

NextAll == \E c \in Callers : All(c)

SpecAll == InitSystems /\ [][NextAll]_vars

----------------------------------------------------------------------------
(* SpecSave: the steps of Device::save and the buffers it allocates.  The  *)
(* callers are threads of one process and share its heap.                  *)

\* The allocator: the lowest address that holds no live buffer.
malloc(hp) ==
    CHOOSE a \in Addresses :
        /\ hp[a].state # "live"
        /\ \A b \in Addresses : hp[b].state # "live" => a <= b

\* The Vec that collect() builds from n elements: [vec, heap].  A Vec with
\* no elements has no buffer; otherwise it owns a new buffer of n slots.
Vec_collect(hp, n) ==
    IF n = 0
    THEN [vec |-> NoBuffer, heap |-> hp]
    ELSE LET a == malloc(hp)
         IN  [vec  |-> [alloc |-> a, gen |-> hp[a].gen + 1],
              heap |-> [hp EXCEPT ![a] = [state |-> "live", len |-> n,
                                          gen |-> hp[a].gen + 1, calls |-> 0]]]

\* Drop of a Vec: its buffer is freed.
Vec_drop(hp, vec) ==
    IF vec.alloc = NULL THEN hp ELSE [hp EXCEPT ![vec.alloc].state = "freed"]

\* Peer::handle on a peer with n allowed IPs, returning the bare record: the
\* Vec is a local and is dropped at the return.
Peer_handle_mem_dropping(hp, n) ==
    LET r == Vec_collect(hp, n)
    IN  [vec |-> r.vec, heap |-> Vec_drop(r.heap, r.vec)]

\* What Peer::handle does to the heap for a peer with n allowed IPs: it
\* collects the records into a Vec (peer.rs lines 161-165) and moves the Vec
\* into the Handle it returns (lines 184-187), so the buffer stays.
Peer_handle_mem(hp, n) ==
    Vec_collect(hp, n)

\* The peer Handles of Device::handle (device.rs lines 154-158), built in
\* list order: [vecs, heap], vecs[i] the allowed_ips Vec of peer i.
RECURSIVE Peer_handles_mem(_, _, _)
Peer_handles_mem(hp, peers, vecs) ==
    IF peers = <<>> THEN [vecs |-> vecs, heap |-> hp]
    ELSE LET r == Peer_handle_mem(hp, Len(Head(peers).allowed_ips))
         IN  Peer_handles_mem(r.heap, Tail(peers), Append(vecs, r.vec))

\* Device::handle with the buffers it allocates: the peers Vec, sized by
\* collect() from the length of the peer list, and each peer's Vec.  The
\* pointers of the tree are slots of these buffers: first_peer, last_peer
\* and next_peer of peers, a peer's first_allowedip, last_allowedip and its
\* records' next_allowedip of that peer's allowed_ips.
Device_handle_mem(d, hp, stray) ==
    LET pv == Vec_collect(hp, Len(d.peers))
        r  == Peer_handles_mem(pv.heap, d.peers, <<>>)
    IN  [handle |-> [tree        |-> Device_handle(d, stray),
                     peers       |-> pv.vec,
                     allowed_ips |-> r.vecs],
         heap   |-> r.heap]

\* The buffers a device Handle owns.
HandleBuffers(m) ==
    {v \in {m.peers} \cup {m.allowed_ips[i] : i \in 1..Len(m.allowed_ips)} :
        v.alloc # NULL}

\* Drop of a device Handle: the peers Vec and every peer's Vec are dropped.
Handle_drop(hp, m) ==
    [a \in Addresses |->
        IF \E v \in HandleBuffers(m) : v.alloc = a
        THEN [hp[a] EXCEPT !.state = "freed"]
        ELSE hp[a]]

\* Device::save, line 225: let mut handle = self.handle();
SaveHandle(c) ==
    \E s \in StrayValues :
        /\ pc[c] = "idle" /\ dev[c].is_some
        /\ LET r == Device_handle_mem(dev[c].value, heap, Stray(s))
           IN  /\ heap' = r.heap
               /\ held' = [held EXCEPT ![c] = Some(r.handle)]
        /\ pc' = [pc EXCEPT ![c] = "built"]
        /\ UNCHANGED <<sysVars, codecVars, keyVars, peerVars>>

\* Line 228: wg_set_device(&mut handle.h) is entered; the library now holds
\* the device record and, through it, the buffers.
SaveCall(c) ==
    /\ pc[c] = "built"
    /\ heap' = [a \in Addresses |->
                  IF \E v \in HandleBuffers(held[c].value) : v.alloc = a
                  THEN [heap[a] EXCEPT !.calls = @ + 1]
                  ELSE heap[a]]
    /\ pc' = [pc EXCEPT ![c] = "in_call"]
    /\ UNCHANGED <<held, sysVars, codecVars, keyVars, peerVars>>

\* wg_set_device returns, having applied the tree or refused it.
SaveReturn(c) ==
    \E refused \in BOOLEAN :
        /\ pc[c] = "in_call"
        /\ LET r == IF refused THEN [ok |-> FALSE, sys |-> sys]
                    ELSE wg_set_device(sys, held[c].value.tree)
           IN  /\ sys' = r.sys
               /\ out' = [op |-> "save", caller |-> c, ok |-> r.ok]
        /\ pc' = [pc EXCEPT ![c] = "returned"]
        /\ UNCHANGED <<dev, via, last_save, tree, heap, held,
                       codecVars, keyVars, peerVars>>

\* Lines 229-234: save returns Err or Ok; handle and self go out of scope.
SaveDrop(c) ==
    /\ pc[c] = "returned"
    /\ heap' = Handle_drop(heap, held[c].value)
    /\ held' = [held EXCEPT ![c] = None]
    /\ dev' = [dev EXCEPT ![c] = None]
    /\ pc' = [pc EXCEPT ![c] = "idle"]
    /\ UNCHANGED <<sys, via, last_save, tree, out, codecVars, keyVars, peerVars>>

\* The Devices the callers save: a key and up to MaxPeers peers of the pool.
SaveDevices ==
    [name        : {Wg0},
     private_key : {Some(KeyA)},
     listen_port : {None},
     peers       : SeqsUpTo(PeerPool, MaxPeers)]

InitSave ==
    /\ CodecAtRest /\ KeyAtRest /\ PeerAtRest /\ MemAtRest
    /\ sys = [n \in Names |-> IF n = Wg0 THEN FreshInterface ELSE Absent]
    /\ dev \in [Callers -> {Some(d) : d \in SaveDevices}]
    /\ via = [c \in Callers |-> "open"]
    /\ last_save = None
    /\ tree = None
    /\ out = NoOut

NextSave ==
    \E c \in Callers :
        \/ SaveHandle(c)
        \/ SaveCall(c)
        \/ SaveReturn(c)
        \/ SaveDrop(c)

SpecSave == InitSave /\ [][NextSave]_vars

----------------------------------------------------------------------------
(* SpecMutate: one caller creates or opens the device, mutates it and its  *)
(* peers in memory, and saves it.                                          *)

\* The endpoint and the allowed IP the caller gives to peers of its Device.
MutEndpoints == {Ep6}

MutIps == {AllowedIp_new(V4(10, 0, 0, 2), 32)}

\* The caller of SpecMutate.
Owner == {1}

\* dev.peers_mut()[i].set_endpoint(ep), i counting from 1.
Device_peers_mut_set_endpoint(d, i, ep) ==
    [d EXCEPT !.peers[i] = Peer_set_endpoint(@, ep)]

\* dev.peers_mut()[i].add_allowed_ip(ip), i counting from 1.
Device_peers_mut_add_allowed_ip(d, i, ip) ==
    [d EXCEPT !.peers[i] = Peer_add_allowed_ip(@, ip)]

\* Peer::set_endpoint on a peer of the caller's Device.
SetPeerEndpoint(c) ==
    \E ep \in MutEndpoints :
        /\ dev[c].is_some
        /\ \E i \in 1..Len(dev[c].value.peers) :
              dev' = [dev EXCEPT ![c] =
                        Some(Device_peers_mut_set_endpoint(dev[c].value, i, ep))]
        /\ tree' = None
        /\ out' = NoOut
        /\ UNCHANGED <<sys, via, last_save, codecVars, keyVars, peerVars, memVars>>

\* Peer::add_allowed_ip on a peer of the caller's Device, of an allowed IP
\* the peer does not hold yet.
AddPeerAllowedIp(c) ==
    \E ip \in MutIps :
        /\ dev[c].is_some
        /\ \E i \in 1..Len(dev[c].value.peers) :
              /\ \A j \in 1..Len(dev[c].value.peers[i].allowed_ips) :
                    dev[c].value.peers[i].allowed_ips[j] # ip
              /\ dev' = [dev EXCEPT ![c] =
                           Some(Device_peers_mut_add_allowed_ip(dev[c].value, i, ip))]
        /\ tree' = None
        /\ out' = NoOut
        /\ UNCHANGED <<sys, via, last_save, codecVars, keyVars, peerVars, memVars>>

InitMutate ==
    /\ CodecAtRest /\ KeyAtRest /\ PeerAtRest /\ MemAtRest
    /\ \E cfg \in {Absent, ConfiguredInterface(Wg0)} :
          sys = [n \in Names |-> IF n = Wg0 THEN cfg ELSE Absent]
    /\ dev = [c \in Callers |-> None]
    /\ via = [c \in Callers |-> "none"]
    /\ last_save = None
    /\ tree = None
    /\ out = NoOut

NextMutate ==
    \E c \in Owner :
        \/ Create(c)
        \/ Open(c)
        \/ SetListenPort(c)
        \/ AddPeer(c)
        \/ SetPeerEndpoint(c)
        \/ AddPeerAllowedIp(c)
        \/ Save(c)

SpecMutate == InitMutate /\ [][NextMutate]_vars

----------------------------------------------------------------------------
(* The claims.                                                             *)

\* C1: a Device built in memory (created) with a private key, a listen port
\* and its peers, once saved successfully and then opened on the same name,
\* is returned equal to the saved Device in every field, the peers and each
\* peer's allowed IPs in the same order.  The step is the open that follows
\* the save.
C1_SaveOpenRoundTrip ==
    [][(/\ out.op = "save" /\ out.ok /\ out.via = "create"
        /\ out.device.private_key.is_some
        /\ out.device.listen_port.is_some
        /\ out'.op = "open" /\ out'.name = out.device.name
        /\ out'.result # Panic /\ out'.result.value.ok)
       => out'.result.value.value = out.device]_vars

\* C2: for every IPv4 address, every IPv6 address and every 16-bit port,
\* endpoint_to_sockaddr into a zeroed buffer followed by sockaddr_to_endpoint
\* returns exactly the original address and port.
C2_EndpointRoundTrip ==
    (endpoint.is_some /\ ep_out # Idle) => ep_out = Ret(endpoint)

\* The slots met from pointer p on, at most fuel of them.
RECURSIVE SlotsFrom(_, _, _)
SlotsFrom(buf, p, fuel) ==
    IF p = NULL \/ fuel = 0 THEN <<>>
    ELSE IF p \notin DOMAIN buf THEN <<p>>
    ELSE <<p>> \o SlotsFrom(buf, buf[p].next_allowedip, fuel - 1)

\* C3: Peer::handle on a peer with K allowed IPs produces a buffer of K
\* records in list order; following next pointers from the first pointer
\* visits exactly the K slots in order, the last record's next pointer is
\* null and the last pointer designates slot K; with K = 0 both pointers are
\* null.
C3_AllowedIpChain ==
    (peer.is_some /\ peer_h.is_some) =>
        LET ips == peer.value.allowed_ips
            K   == Len(ips)
            buf == peer_h.value.allowed_ips
            h   == peer_h.value.handle
        IN  /\ Len(buf) = K
            /\ \A i \in 1..K :
                  /\ buf[i].family = IF ips[i].address.family = "V4"
                                     THEN AF_INET ELSE AF_INET6
                  /\ SubSeq(buf[i].addr, 1, Len(ips[i].address.octets))
                        = ips[i].address.octets
                  /\ buf[i].cidr = ips[i].mask
            /\ SlotsFrom(buf, h.first_allowedip, K + 1) = [i \in 1..K |-> i]
            /\ K > 0 => (buf[K].next_allowedip = NULL /\ h.last_allowedip = K)
            /\ K = 0 => (h.first_allowedip = NULL /\ h.last_allowedip = NULL)

\* A peer with two allowed IPs has been encoded.
C3_Witness ==
    /\ peer.is_some /\ peer_h.is_some
    /\ Len(peer.value.allowed_ips) >= 2

\* What the system holds of an allowed IP: its family, its octets at the
\* start of the 16-byte address field, its prefix length.
ExpectedIp(ip) ==
    [family |-> IF ip.address.family = "V4" THEN AF_INET ELSE AF_INET6,
     addr   |-> ip.address.octets \o ZeroBytes(16 - Len(ip.address.octets)),
     cidr   |-> ip.mask]

\* What the system holds of a peer's endpoint.
ExpectedEndpoint(ep) ==
    IF ~ep.is_some THEN [sa_family |-> 0, sin_port |-> 0, bytes |-> ZeroBytes(24)]
    ELSE IF ep.value.addr.family = "V4"
    THEN [sa_family |-> AF_INET, sin_port |-> ep.value.port,
          bytes |-> ep.value.addr.octets \o ZeroBytes(20)]
    ELSE [sa_family |-> AF_INET6, sin_port |-> ep.value.port,
          bytes |-> ZeroBytes(4) \o ep.value.addr.octets \o ZeroBytes(4)]

\* What the system holds when its peers are exactly the peers of a Device.
ExpectedPeers(peers) ==
    [i \in 1..Len(peers) |->
        [public_key |-> peers[i].public_key.value.bytes,
         endpoint   |-> ExpectedEndpoint(peers[i].endpoint),
         allowedips |-> [j \in 1..Len(peers[i].allowed_ips) |->
                            ExpectedIp(peers[i].allowed_ips[j])]]]

\* This step's save succeeded, its caller had opened the device, and the
\* save before it was made by another caller who had opened the device too,
\* at a time when this caller already held its copy.
SecondSaverSaved ==
    /\ out.op = "save" /\ out.ok /\ out.via = "open"
    /\ out.prev.is_some
    /\ out.prev.value.via = "open"
    /\ out.prev.value.caller # out.caller
    /\ out.caller \in out.prev.value.holders

\* C4, as stated: after the second of two openers has saved, the system's
\* configuration of the device equals exactly the second saver's Device:
\* private key, listen port (0 for none), peer list and each peer's
\* allowed-IP list.
C4_LastWriterWins ==
    SecondSaverSaved =>
        LET d == out.device
            cfg == sys[d.name]
        IN  /\ cfg.private_key = IF d.private_key.is_some
                                 THEN Some(d.private_key.value.bytes) ELSE None
            /\ cfg.listen_port = IF d.listen_port.is_some
                                 THEN d.listen_port.value ELSE 0
            /\ cfg.peers = ExpectedPeers(d.peers)

\* C4, amended: the second save replaces the peer list and each peer's
\* allowed-IP list by exactly the second saver's, and sets the private key
\* and the listen port to the second saver's when that field is populated;
\* a field the second saver's Device leaves unpopulated keeps the value the
\* system had before the second save.
C4_ListsReplacedFieldsKept ==
    [][SecondSaverSaved' =>
        LET d == out'.device
            old == sys[d.name]
            new == sys'[d.name]
        IN  /\ new.peers = ExpectedPeers(d.peers)
            /\ new.private_key = IF d.private_key.is_some
                                 THEN Some(d.private_key.value.bytes)
                                 ELSE old.private_key
            /\ new.listen_port = IF d.listen_port.is_some
                                 THEN d.listen_port.value
                                 ELSE old.listen_port]_vars

\* The second saver's Device has a peer and no listen port, the system has
\* the second saver's peers and still listens on the first saver's port.
C4_Witness ==
    /\ SecondSaverSaved
    /\ ~out.device.listen_port.is_some
    /\ out.device.peers # <<>>
    /\ sys[out.device.name].listen_port # 0
    /\ sys[out.device.name].peers = ExpectedPeers(out.device.peers)

\* C5: the tree that Device::handle builds for save has the replace-peers
\* flag on the device record and the replace-allowed-IPs flag on the record
\* of every peer of the Device, whatever the Device holds (no peers, peers
\* with no allowed IPs).
C5_ReplaceFlags ==
    \A c \in Callers :
        (tree.is_some /\ dev[c].is_some) =>
            LET t == tree.value
            IN  /\ "WGDEVICE_REPLACE_PEERS" \in t.h.flags
                /\ Len(t.peers) = Len(dev[c].value.peers)
                /\ \A i \in 1..Len(t.peers) :
                      "WGPEER_REPLACE_ALLOWEDIPS" \in t.peers[i].handle.flags

\* A tree has been built for a Device with two peers, one of them with no
\* allowed IPs.
C5_Witness ==
    /\ tree.is_some
    /\ Len(tree.value.peers) >= 2
    /\ \E i \in 1..Len(tree.value.peers) : tree.value.peers[i].allowed_ips = <<>>
    /\ \E i \in 1..Len(tree.value.peers) : tree.value.peers[i].allowed_ips # <<>>

\* C6: in the tree that Device::handle builds for save, the has-private-key
\* flag is set iff the Device's private key is populated, the has-listen-port
\* flag iff its listen port is populated, and each peer record's
\* has-public-key flag iff that Peer's public key is populated; a populated
\* private key comes with the public key derived from it; an absent key is
\* 32 zero bytes in the record and an absent port is 0.
C6_HasFlags ==
    \A c \in Callers :
        (tree.is_some /\ dev[c].is_some) =>
            LET t == tree.value
                d == dev[c].value
            IN  /\ ("WGDEVICE_HAS_PRIVATE_KEY" \in t.h.flags) <=> d.private_key.is_some
                /\ ("WGDEVICE_HAS_LISTEN_PORT" \in t.h.flags) <=> d.listen_port.is_some
                /\ IF d.private_key.is_some
                   THEN /\ t.h.private_key = d.private_key.value.bytes
                        /\ t.h.public_key =
                              wg_generate_public_key(d.private_key.value.bytes)
                   ELSE /\ t.h.private_key = ZeroBytes(KEY_SIZE)
                        /\ t.h.public_key = ZeroBytes(KEY_SIZE)
                /\ t.h.listen_port = IF d.listen_port.is_some
                                     THEN d.listen_port.value ELSE 0
                /\ Len(t.peers) = Len(d.peers)
                /\ \A i \in 1..Len(d.peers) :
                      LET h == t.peers[i].handle
                          k == d.peers[i].public_key
                      IN  /\ ("WGPEER_HAS_PUBLIC_KEY" \in h.flags) <=> k.is_some
                          /\ h.public_key = IF k.is_some THEN k.value.bytes
                                            ELSE ZeroBytes(KEY_SIZE)

\* A tree has been built for a Device with no private key, the listen port
\* 0, a peer without a public key and a peer with one.
C6_Witness ==
    /\ tree.is_some
    /\ \E c \in Callers :
          /\ dev[c].is_some
          /\ ~dev[c].value.private_key.is_some
          /\ dev[c].value.listen_port = Some(0)
          /\ \E i \in 1..Len(dev[c].value.peers) :
                ~dev[c].value.peers[i].public_key.is_some
          /\ \E i \in 1..Len(dev[c].value.peers) :
                dev[c].value.peers[i].public_key.is_some

\* C7: Device::all returns Ok with one Device per reported name, in the
\* order reported, when the open of every name succeeds; when the open of a
\* name fails it has opened the names up to that one and no later name, and
\* returns the error, with no list of devices.
C7_AllOrNothing ==
    out.op = "all" =>
        LET names == out.listing
            n == Len(names)
            failing == {i \in 1..n : names[i] \in out.denied}
        IN  IF failing = {}
            THEN /\ out.result # Panic /\ out.result.value.ok
                 /\ Len(out.result.value.value) = n
                 /\ \A i \in 1..n :
                       /\ out.result.value.value[i].name = names[i]
                       /\ Ret(Ok(out.result.value.value[i]))
                             = Device_open(sys, names[i], FALSE)
                 /\ out.opened = names
            ELSE LET k == CHOOSE i \in failing : \A j \in failing : i <= j
                 IN  /\ out.result = Ret(Err("os error"))
                     /\ out.opened = SubSeq(names, 1, k)

\* Three names were reported and the open of the second failed: the first
\* two were opened, the third was not.
C7_Witness ==
    /\ out.op = "all"
    /\ Len(out.listing) = 3
    /\ out.listing[1] \notin out.denied
    /\ out.listing[2] \in out.denied
    /\ out.result = Ret(Err("os error"))
    /\ Len(out.opened) = 2

\* C8: decoding a socket address dispatches on the family discriminator:
\* the IPv4 tag yields an IPv4 endpoint, the IPv6 tag an IPv6 endpoint, the
\* unset value no endpoint and no error, and every other value a panic, never
\* an address or an error value.
C8_FamilyDispatch ==
    ep_out # Idle =>
        /\ saddr.sa_family = AF_INET =>
              /\ ep_out.tag = "ret" /\ ep_out.value.is_some
              /\ ep_out.value.value.addr.family = "V4"
        /\ saddr.sa_family = AF_INET6 =>
              /\ ep_out.tag = "ret" /\ ep_out.value.is_some
              /\ ep_out.value.value.addr.family = "V6"
        /\ saddr.sa_family = 0 => ep_out = Ret(None)
        /\ saddr.sa_family \notin {0, AF_INET, AF_INET6} => ep_out = Panic

\* An unknown family has been decoded, and the decoder panicked.
C8_Witness ==
    /\ saddr.sa_family \notin {0, AF_INET, AF_INET6}
    /\ ep_out = Panic

\* What counts as Base64 text: whole groups of four characters of the
\* alphabet, the last group possibly ending in one or two '=', and no bits
\* set behind the last byte.
IsBase64(t) ==
    LET n == Len(t)
        pads == IF n > 0 /\ t[n] = 61 THEN (IF n > 1 /\ t[n - 1] = 61 THEN 2 ELSE 1)
                ELSE 0
    IN  /\ n % 4 = 0
        /\ \A i \in 1..(n - pads) : Base64Val(t[i]) >= 0
        /\ pads = 1 => Base64Val(t[n - 1]) % 4 = 0
        /\ pads = 2 => Base64Val(t[n - 2]) % 16 = 0

\* The number of bytes a Base64 text stands for.
Base64Len(t) ==
    LET n == Len(t)
        pads == IF n > 0 /\ t[n] = 61 THEN (IF t[n - 1] = 61 THEN 2 ELSE 1) ELSE 0
    IN  (n \div 4) * 3 - pads

\* C9: from_base64(to_base64(b)) succeeds with a key whose bytes are b; a
\* valid Base64 text of another decoded length fails with InvalidLength; a
\* text that is not Base64 fails with InvalidBase64; no key is built with a
\* length other than 32.
C9_KeyTextCodec ==
    key_out # Idle =>
        /\ key.is_some => key_out = Ret(Ok(key.value))
        /\ (IsBase64(b64) /\ Base64Len(b64) # 32) => key_out = Ret(Err("InvalidLength"))
        /\ ~IsBase64(b64) => key_out = Ret(Err("InvalidBase64"))
        /\ key_out.value.ok => Len(key_out.value.value.bytes) = 32

\* A key has gone through to_base64 and from_base64 and come back.
C9_Witness ==
    /\ key.is_some
    /\ key_out = Ret(Ok(key.value))
    /\ b64 # <<>>

\* C10: encoding an IPv4 AllowedIp starts from an all-zero record and writes
\* only the family tag, the 4 address bytes and the prefix length: every other
\* byte of the record, the remaining 12 bytes of the address union and the
\* next pointer included, is zero afterwards.
C10_Ip4RecordFrame ==
    (allowed_ip.is_some /\ allowed_ip.value.address.family = "V4") =>
        allowedip_h = [family         |-> AF_INET,
                       addr           |-> allowed_ip.value.address.octets \o ZeroBytes(12),
                       cidr           |-> allowed_ip.value.mask,
                       next_allowedip |-> NULL]

\* The pointer to slot q of the buffer of vec.
SlotOf(vec, q) == [alloc |-> vec.alloc, gen |-> vec.gen, slot |-> q]

\* Every pointer of the tree of a device Handle m that is not null: the
\* device record's first and last peer and each peer's next pointer, into
\* the peers buffer; each peer's first and last allowed IP and each allowed
\* IP's next pointer, into that peer's buffer.
TreePointers(m) ==
    LET t == m.tree
        n == Len(t.peers)
        toPeers == ({t.h.first_peer, t.h.last_peer}
                        \cup {t.peers[i].handle.next_peer : i \in 1..n}) \ {NULL}
        toIps(i) == ({t.peers[i].handle.first_allowedip,
                      t.peers[i].handle.last_allowedip}
                        \cup {t.peers[i].allowed_ips[j].next_allowedip :
                                j \in 1..Len(t.peers[i].allowed_ips)}) \ {NULL}
    IN  {SlotOf(m.peers, q) : q \in toPeers}
            \cup UNION {{SlotOf(m.allowed_ips[i], q) : q \in toIps(i)} : i \in 1..n}

\* The pointer refers to a slot of a buffer that is allocated and is the
\* buffer the pointer was computed from.
PointsToLiveSlot(p) ==
    /\ p.alloc \in Addresses
    /\ heap[p.alloc].state = "live"
    /\ heap[p.alloc].gen = p.gen
    /\ p.slot \in 1..heap[p.alloc].len

\* C11: while wg_set_device runs for a save, every pointer of the submitted
\* tree refers to a slot of a buffer that is still allocated and is the one
\* the pointer was computed from; the buffers of a Handle stay allocated
\* from the time it is built until the call has returned, every live buffer
\* belongs to a save in progress, and no buffer is passed to more than one
\* external call.
C11_BuffersOutliveCall ==
    /\ \A c \in Callers :
          pc[c] = "in_call" =>
              \A p \in TreePointers(held[c].value) : PointsToLiveSlot(p)
    /\ \A c \in Callers :
          pc[c] \in {"built", "in_call", "returned"} =>
              /\ held[c].is_some
              /\ \A v \in HandleBuffers(held[c].value) :
                    heap[v.alloc].state = "live" /\ heap[v.alloc].gen = v.gen
    /\ \A a \in Addresses :
          /\ heap[a].calls <= 1
          /\ heap[a].state = "live" =>
                \E c \in Callers :
                    /\ held[c].is_some
                    /\ \E v \in HandleBuffers(held[c].value) : v.alloc = a

\* wg_set_device runs on the tree of a Device with two peers, one of them
\* with allowed IPs, and one of its buffers stands at an address that an
\* earlier save had used and released.
C11_Witness ==
    \E c \in Callers :
        /\ pc[c] = "in_call"
        /\ Len(held[c].value.tree.peers) >= 2
        /\ \E i \in 1..Len(held[c].value.allowed_ips) :
              held[c].value.allowed_ips[i].alloc # NULL
        /\ \E v \in HandleBuffers(held[c].value) : v.gen >= 2

\* Device e is Device d after one call of a mutator: set_listen_port, which
\* sets the port and nothing else; add_peer, which appends one peer at the
\* end of the peer list and leaves the existing peers and the other fields
\* as they were; or Peer::set_endpoint / Peer::add_allowed_ip on one peer,
\* which sets that peer's endpoint, or appends one allowed IP to its list,
\* and leaves everything else as it was.
MutatedOnce(d, e) ==
    /\ e.name = d.name
    /\ e.private_key = d.private_key
    /\ \/ /\ e.listen_port.is_some
          /\ e.peers = d.peers
       \/ /\ e.listen_port = d.listen_port
          /\ Len(e.peers) = Len(d.peers) + 1
          /\ SubSeq(e.peers, 1, Len(d.peers)) = d.peers
       \/ /\ e.listen_port = d.listen_port
          /\ Len(e.peers) = Len(d.peers)
          /\ \E i \in 1..Len(d.peers) :
                /\ \A j \in 1..Len(d.peers) : j # i => e.peers[j] = d.peers[j]
                /\ e.peers[i].public_key = d.peers[i].public_key
                /\ \/ /\ e.peers[i].endpoint.is_some
                      /\ e.peers[i].allowed_ips = d.peers[i].allowed_ips
                   \/ /\ e.peers[i].endpoint = d.peers[i].endpoint
                      /\ Len(e.peers[i].allowed_ips) = Len(d.peers[i].allowed_ips) + 1
                      /\ SubSeq(e.peers[i].allowed_ips, 1, Len(d.peers[i].allowed_ips))
                            = d.peers[i].allowed_ips

\* C12: a step that changes the Device a caller holds (set_listen_port,
\* add_peer, Peer::set_endpoint, Peer::add_allowed_ip) yields a Device,
\* changes it as that one mutator does, add_peer appending at the end, and
\* leaves the system as it was; the system's state of an interface that is
\* present changes only in the step of a successful save of a Device of that
\* name.
C12_MutatorsInMemory ==
    [][/\ \A c \in Callers :
             (dev[c].is_some /\ dev'[c] # dev[c] /\ out'.op # "save") =>
                 /\ dev'[c].is_some
                 /\ MutatedOnce(dev[c].value, dev'[c].value)
                 /\ sys' = sys
       /\ \A n \in Names :
             (sys[n].present /\ sys'[n] # sys[n]) =>
                 /\ out'.op = "save" /\ out'.ok
                 /\ out'.device.name = n]_vars

\* The caller holds a Device it opened and then changed with all four
\* mutators: against what open returns now, it has a listen port where the
\* system has none, one more peer, and a first peer with another endpoint
\* and one more allowed IP.
C12_Witness ==
    \E c \in Owner :
        /\ dev[c].is_some /\ via[c] = "open"
        /\ LET d == dev[c].value
               o == Device_open(sys, d.name, FALSE).value.value
           IN  /\ sys[d.name].present
               /\ ~o.listen_port.is_some /\ d.listen_port.is_some
               /\ o.peers # <<>>
               /\ Len(d.peers) = Len(o.peers) + 1
               /\ d.peers[1].endpoint # o.peers[1].endpoint
               /\ Len(d.peers[1].allowed_ips) = Len(o.peers[1].allowed_ips) + 1

====
